---- MODULE Spec2Model ----
(***************************************************************************)
(* faro.Database (src/faro/database.py): an in-memory SQLite database that  *)
(* ingests tabular sources as named tables, runs single statements and     *)
(* maps Python callables across the rows of a table.                       *)
(*                                                                         *)
(* State: the engine's catalog (table name -> relation), the `_tables`     *)
(* registry kept by Database, and two history variables describing the     *)
(* most recent public call (`last`) and the state it started from (`pre`). *)
(* sqlite3 and pandas are external; they are modelled by what they do to   *)
(* the catalog (CREATE/DROP/INSERT/SELECT, pragma_table_info, to_sql).     *)
(* Table and column names are plain identifiers, which escape_sqlite_ident *)
(* only wraps in quotes, so quoted and unquoted names denote the same      *)
(* table.  Arguments are of the documented types, except for `func`,       *)
(* which may be an object that is not callable.                            *)
(* Numbers are compared by value: 1 and 1.0 are the same value here.       *)
(***************************************************************************)
EXTENDS Integers, Sequences, FiniteSets, TLC

VARIABLES engine, _tables, last, pre, nops

vars == <<engine, _tables, last, pre, nops>>

\* Number of public calls made on the instance in one behaviour.
MaxOps == 2

\* SQL NULL / Python None / pandas NaN.
NULL == -1

Names == {"t", "u"}
ColNames == {"a", "b", "c"}

Range(s) == {s[i] : i \in 1..Len(s)}

(***************************************************************************)
(* Relations of the engine's catalog: ordered columns, rows as tuples.     *)
(***************************************************************************)
Absent == [exists |-> FALSE, columns |-> <<>>, rows |-> <<>>]

Rel(cols, rows) == [exists |-> TRUE, columns |-> cols, rows |-> rows]

\* connect(':memory:'): an empty catalog.
connect == [n \in Names |-> Absent]

\* Position of column c in cols (0 when absent).
IndexOf(cols, c) ==
  IF \E i \in 1..Len(cols) : cols[i] = c
    THEN CHOOSE i \in 1..Len(cols) : cols[i] = c /\ \A j \in 1..(i-1) : cols[j] # c
    ELSE 0

(***************************************************************************)
(* pandas.DataFrame: column-oriented; `series[i]` is the data of column i. *)
(***************************************************************************)
DataFrame(cols, series, n) == [columns |-> cols, series |-> series, index |-> n]

\* Row i of a DataFrame (DataFrame.values / to_dict(orient='records')).
DfRow(df, i) == [j \in 1..Len(df.columns) |-> df.series[j][i]]

DfRows(df) == [i \in 1..df.index |-> DfRow(df, i)]

\* Table.to_dataframe(): the rows of a result set, turned into columns.
to_dataframe(tbl) ==
  DataFrame(tbl.columns,
            [j \in 1..Len(tbl.columns) |-> [i \in 1..Len(tbl.rows) |-> tbl.rows[i][j]]],
            Len(tbl.rows))

\* df[columns].values: the rows restricted to `columns`, in that order.
DfValues(df, columns) ==
  [i \in 1..df.index |->
     [j \in 1..Len(columns) |-> df.series[IndexOf(df.columns, columns[j])][i]]]

\* df[output] = result: replaces the column in place, or attaches it last.
DfSetItem(df, output, result) ==
  IF output \in Range(df.columns)
    THEN [df EXCEPT !.series[IndexOf(df.columns, output)] = result]
    ELSE [df EXCEPT !.columns = Append(@, output), !.series = Append(@, result)]

(***************************************************************************)
(* The sources add_table is called with.                                   *)
(***************************************************************************)
DF1 == DataFrame(<<"a", "b">>, << <<0, 1>>, <<1, 0>> >>, 2)
DF2 == DataFrame(<<"b", "a">>, << <<1>>, <<NULL>> >>, 1)
DF3 == DataFrame(<<"b">>, << <<1>> >>, 1)

Sources ==
  { [kind |-> "DataFrame", found |-> TRUE, ext |-> "", df |-> DF1],
    [kind |-> "DataFrame", found |-> TRUE, ext |-> "", df |-> DF3],
    [kind |-> "Table", found |-> TRUE, ext |-> "", df |-> DF2],
    [kind |-> "str", found |-> TRUE, ext |-> ".csv", df |-> DF1],
    [kind |-> "str", found |-> TRUE, ext |-> ".txt", df |-> DF1],
    [kind |-> "str", found |-> FALSE, ext |-> ".csv", df |-> DF1],
    [kind |-> "other", found |-> TRUE, ext |-> "", df |-> DF1] }

Policies == {"fail", "replace", "append", "upsert"}

(***************************************************************************)
(* SQL text: a string is a sequence of tokens.  Sep is the ';' character,  *)
(* Ws a run of blanks, every other token the text of one statement.        *)
(***************************************************************************)
Stmt(kind, table, cols) == [kind |-> kind, table |-> table, cols |-> cols]

Sep == Stmt(";", "", <<>>)
Ws == Stmt(" ", "", <<>>)
SelectAll(t) == Stmt("select *", t, <<>>)
SelectCols(t, cols) == Stmt("select", t, cols)
PragmaTableInfo(t) == Stmt("pragma_table_info", t, <<>>)
CreateTable(t) == Stmt("create table", t, <<"a">>)
DropTable(t) == Stmt("drop table", t, <<>>)

\* str.split(';'): the pieces between separators, empty pieces included.
RECURSIVE split(_)
split(sql) ==
  IF sql = <<>> THEN << <<>> >>
  ELSE LET rest == split(Tail(sql)) IN
       IF Head(sql) = Sep THEN << <<>> >> \o rest
       ELSE << <<Head(sql)>> \o Head(rest) >> \o Tail(rest)

\* [e for e in sql.split(';') if e != '']
expressions(sql) == SelectSeq(split(sql), LAMBDA e : e # <<>>)

multi_statement_lenient(exprs) == Len(exprs) > 2

\* len(expressions) > 1
multi_statement(exprs) == Len(exprs) > 1

(***************************************************************************)
(* sqlite3: Cursor.execute.  The result carries the catalog afterwards,    *)
(* the rows fetchall() returns and Cursor.description (`described` is      *)
(* FALSE when description is None: the statement returns no rows).         *)
(***************************************************************************)
Cursor(err, eng, rows, description, described) ==
  [err |-> err, engine |-> eng, rows |-> rows,
   description |-> description, described |-> described]

\* One statement run by the engine.  A double-quoted name that is no column
\* is read by SQLite as a string literal; the callers here never select one,
\* and the model reports it as an engine error.
run_stmt(eng, st) ==
  LET r == eng[st.table] IN
  CASE st.kind = "select *" ->
         IF r.exists THEN Cursor("", eng, r.rows, r.columns, TRUE)
         ELSE Cursor("EngineError", eng, <<>>, <<>>, FALSE)
    [] st.kind = "select" ->
         IF r.exists /\ st.cols # <<>> /\ Range(st.cols) \subseteq Range(r.columns)
           THEN Cursor("", eng,
                       [i \in 1..Len(r.rows) |->
                          [j \in 1..Len(st.cols) |-> r.rows[i][IndexOf(r.columns, st.cols[j])]]],
                       st.cols, TRUE)
           ELSE Cursor("EngineError", eng, <<>>, <<>>, FALSE)
    [] st.kind = "pragma_table_info" ->
         Cursor("", eng, [i \in 1..Len(r.columns) |-> <<r.columns[i]>>], <<"name">>, TRUE)
    [] st.kind = "create table" ->
         IF r.exists THEN Cursor("EngineError", eng, <<>>, <<>>, FALSE)
         ELSE Cursor("", [eng EXCEPT ![st.table] = Rel(st.cols, <<>>)], <<>>, <<>>, FALSE)
    [] st.kind = "drop table" ->
         IF r.exists THEN Cursor("", [eng EXCEPT ![st.table] = Absent], <<>>, <<>>, FALSE)
         ELSE Cursor("EngineError", eng, <<>>, <<>>, FALSE)
    [] OTHER -> Cursor("EngineError", eng, <<>>, <<>>, FALSE)

\* The statements of a text as the engine reads it: blanks are skipped.
Statements(sql) ==
  LET strip(e) == SelectSeq(e, LAMBDA tok : tok # Ws)
      pieces == split(sql)
      stripped == [i \in 1..Len(pieces) |-> strip(pieces[i])]
  IN SelectSeq(stripped, LAMBDA e : e # <<>>)

\* self._cursor.execute(sql): sqlite3 refuses more than one statement and
\* runs none of them; a text with no statement is a no-op.
cursor_execute(eng, sql) ==
  LET sts == Statements(sql) IN
  IF Len(sts) > 1 THEN Cursor("EngineError", eng, <<>>, <<>>, FALSE)
  ELSE IF Len(sts) = 0 THEN Cursor("", eng, <<>>, <<>>, FALSE)
  ELSE IF Len(sts[1]) > 1 THEN Cursor("EngineError", eng, <<>>, <<>>, FALSE)
  ELSE run_stmt(eng, sts[1][1])

\* Table(rows, header=False, columns=...)
Table(rows, columns) == [columns |-> columns, rows |-> rows]

NoTable == Table(<<>>, <<>>)

(***************************************************************************)
(* Database.query                                                          *)
(***************************************************************************)
QueryResult(err, eng, calls, tbl) ==
  [err |-> err, engine |-> eng, calls |-> calls, table |-> tbl]

query(eng, sql) ==
  IF multi_statement(expressions(sql))
    THEN QueryResult("MultiStatementError", eng, 0, NoTable)
  ELSE LET x == cursor_execute(eng, sql) IN
       IF x.err # "" THEN QueryResult(x.err, x.engine, 1, NoTable)
       \* description is None: `for row in self._cursor.description` raises
       ELSE IF ~x.described THEN QueryResult("TypeError", x.engine, 1, NoTable)
       ELSE QueryResult("", x.engine, 1, Table(x.rows, x.description))

(***************************************************************************)
(* Database.column_names                                                   *)
(***************************************************************************)
pragma_rows_must_exist(eng, table) ==
  IF eng[table].exists THEN cursor_execute(eng, <<PragmaTableInfo(table)>>)
  ELSE Cursor("EngineError", eng, <<>>, <<>>, FALSE)

\* select name from pragma_table_info("table")
pragma_rows(eng, table) == cursor_execute(eng, <<PragmaTableInfo(table)>>)

column_names(eng, table) ==
  LET x == pragma_rows(eng, table) IN
  [err |-> x.err, names |-> [i \in 1..Len(x.rows) |-> x.rows[i][1]]]

(***************************************************************************)
(* The outcome of a public call: the error raised ("" when it returns),    *)
(* the catalog and registry afterwards, the number of calls made to the    *)
(* engine, whether the source dispatch of add_table was entered, and the   *)
(* number of times func was invoked.                                       *)
(***************************************************************************)
Result(err, errArg, eng, tabs, calls, adapted, fcalls) ==
  [err |-> err, errArg |-> errArg, engine |-> eng, tables |-> tabs,
   calls |-> calls, adapted |-> adapted, fcalls |-> fcalls]

(***************************************************************************)
(* pandas: DataFrame.to_sql(name, conn, if_exists=..., index=False)        *)
(***************************************************************************)
\* The rows of df laid out in the columns of an existing table; a column
\* the frame lacks is NULL.
InsertRows(tcols, df) ==
  [i \in 1..df.index |->
     [j \in 1..Len(tcols) |->
        IF tcols[j] \in Range(df.columns)
          THEN df.series[IndexOf(df.columns, tcols[j])][i]
          ELSE NULL]]

to_sql(eng, df, name, if_exists) ==
  LET r == eng[name] IN
  IF ~r.exists \/ if_exists = "replace"
    THEN [err |-> "", engine |-> [eng EXCEPT ![name] = Rel(df.columns, DfRows(df))]]
  ELSE IF if_exists = "fail"
    THEN [err |-> "EngineError", engine |-> eng]
  ELSE IF Range(df.columns) \subseteq Range(r.columns)
    THEN [err |-> "",
          engine |-> [eng EXCEPT ![name].rows = @ \o InsertRows(r.columns, df)]]
  ELSE [err |-> "EngineError", engine |-> eng]

(***************************************************************************)
(* Database.add_table and its _parse_* helpers                             *)
(***************************************************************************)
_parse_dataframe(eng, df, name, if_exists) == to_sql(eng, df, name, if_exists)

_parse_faro_table(eng, table, name, if_exists) ==
  _parse_dataframe(eng, table.df, name, if_exists)

SupportedExt == {".csv", ".json", ".xlsx"}

_parse_file(eng, file, name, if_exists) ==
  IF ~file.found THEN [err |-> "NotFoundError", engine |-> eng]
  ELSE IF file.ext \notin SupportedExt THEN [err |-> "UnsupportedFormatError", engine |-> eng]
  ELSE _parse_dataframe(eng, file.df, name, if_exists)

\* Whether the call reached the engine: every path that ends in to_sql.
ReachesEngine(table) ==
  \/ table.kind \in {"Table", "DataFrame"}
  \/ table.kind = "str" /\ table.found /\ table.ext \in SupportedExt

never_exists(tabs, name, if_exists) == FALSE

\* name in self._tables and if_exists == 'fail'
already_exists(tabs, name, if_exists) == name \in Range(tabs) /\ if_exists = "fail"

register_always(tabs, name) == Append(tabs, name)

\* if name not in self._tables: self._tables.append(name)
register(tabs, name) == IF name \in Range(tabs) THEN tabs ELSE Append(tabs, name)

add_table(eng, tabs, table, name, if_exists) ==
  IF if_exists \notin {"fail", "replace", "append"}
    THEN Result("InvalidPolicyError", "", eng, tabs, 0, FALSE, 0)
  ELSE IF already_exists(tabs, name, if_exists)
    THEN Result("AlreadyExistsError", "", eng, tabs, 0, FALSE, 0)
  ELSE LET p == CASE table.kind = "str" -> _parse_file(eng, table, name, if_exists)
                  [] table.kind = "Table" -> _parse_faro_table(eng, table, name, if_exists)
                  [] table.kind = "DataFrame" -> _parse_dataframe(eng, table.df, name, if_exists)
                  [] OTHER -> [err |-> "InvalidSourceTypeError", engine |-> eng]
           calls == IF ReachesEngine(table) THEN 1 ELSE 0
       IN IF p.err # ""
            THEN Result(p.err, "", p.engine, tabs, calls, TRUE, 0)
            ELSE Result("", "", p.engine, register(tabs, name), calls, TRUE, 0)

(***************************************************************************)
(* The callables passed to map / map_into: declared parameter names        *)
(* (func.__code__.co_varnames[:co_argcount]) and a body.                   *)
(*   "sum"    : the sum of the arguments modulo 2 (NaN if one is NaN)      *)
(*   "first"  : the first declared parameter                               *)
(*   "raise0" : raises when its first parameter is 0, else returns it      *)
(*   "one"    : the number 1                                               *)
(*   "not callable" : the argument is an object that cannot be called      *)
(***************************************************************************)
Func(params, body) == [params |-> params, body |-> body]

Funcs ==
  { Func(<<"a", "b">>, "sum"),
    Func(<<"b", "a">>, "first"),
    Func(<<"b">>, "first"),
    Func(<<"b">>, "raise0"),
    Func(<<"b", "c">>, "sum"),
    Func(<<>>, "one"),
    Func(<<>>, "not callable") }

\* isinstance(func, Callable)
callable(func) == func.body # "not callable"

RECURSIVE SumSeq(_)
SumSeq(args) == IF args = <<>> THEN 0 ELSE Head(args) + SumSeq(Tail(args))

Returned(v) == [raised |-> FALSE, value |-> v]
Raised == [raised |-> TRUE, value |-> NULL]

\* func(*args): a call with the wrong number of arguments raises TypeError.
Call(func, args) ==
  IF Len(args) # Len(func.params) THEN Raised
  ELSE CASE func.body = "sum" ->
              IF NULL \in Range(args) THEN Returned(NULL) ELSE Returned(SumSeq(args) % 2)
         [] func.body = "first" -> Returned(args[1])
         [] func.body = "raise0" -> IF args[1] = 0 THEN Raised ELSE Returned(args[1])
         [] OTHER -> Returned(1)

\* func(**row): each parameter takes the value stored under its name.
CallByName(func, columns, row) ==
  IF Range(func.params) # Range(columns) THEN Raised
  ELSE Call(func, [i \in 1..Len(func.params) |-> row[IndexOf(columns, func.params[i])]])

\* A list comprehension over the rows: it stops at the first call that raises.
Comprehension(outs) ==
  LET bad == {i \in 1..Len(outs) : outs[i].raised}
      first == IF bad = {} THEN 0 ELSE CHOOSE i \in bad : \A j \in bad : i <= j
  IN [raised |-> bad # {},
      calls |-> IF bad = {} THEN Len(outs) ELSE first,
      result |-> [i \in 1..Len(outs) |-> outs[i].value]]

(***************************************************************************)
(* Database.map                                                            *)
(***************************************************************************)
map_column_never_exists(output, columns, overwrite) == FALSE

\* (output in df.columns) and (overwrite == False)
map_column_exists(output, columns, overwrite) == output \in Range(columns) /\ ~overwrite

map_fetch_restricted(tbl, columns) ==
  LET df == to_dataframe(tbl)
      keep == SelectSeq(columns, LAMBDA c : c \in Range(df.columns))
  IN DataFrame(keep, [j \in 1..Len(keep) |-> df.series[IndexOf(df.columns, keep[j])]], df.index)

\* df = self.query('SELECT * FROM table').to_dataframe(): every column
map_fetch(tbl, columns) == to_dataframe(tbl)

\* Rows already computed are written, the others left NULL.
map_store_partial(eng, tabs, df, table, output, m, calls) ==
  LET done == [i \in 1..df.index |-> IF i < m.calls \/ ~m.raised THEN m.result[i] ELSE NULL]
      a == add_table(eng, tabs,
                     [kind |-> "DataFrame", found |-> TRUE, ext |-> "",
                      df |-> DfSetItem(df, output, done)],
                     table, "replace")
  IN IF m.raised THEN Result("FuncRaised", "", a.engine, a.tables, calls + a.calls, TRUE, m.calls)
     ELSE [a EXCEPT !.calls = @ + calls, !.fcalls = m.calls]

\* result = [func(*row) ...]; df[output] = result; self.add_table(df, ...)
map_store(eng, tabs, df, table, output, m, calls) ==
  IF m.raised THEN Result("FuncRaised", "", eng, tabs, calls, FALSE, m.calls)
  ELSE LET a == add_table(eng, tabs,
                          [kind |-> "DataFrame", found |-> TRUE, ext |-> "",
                           df |-> DfSetItem(df, output, m.result)],
                          table, "replace")
       IN [a EXCEPT !.calls = @ + calls, !.fcalls = m.calls]

map(eng, tabs, func, table, columns, output, overwrite) ==
  IF ~callable(func) THEN Result("TypeError", "", eng, tabs, 0, FALSE, 0)
  ELSE LET q == query(eng, <<SelectAll(table)>>) IN
  IF q.err # "" THEN Result(q.err, "", q.engine, tabs, q.calls, FALSE, 0)
  ELSE LET df == map_fetch(q.table, columns) IN
  IF map_column_exists(output, df.columns, overwrite)
    THEN Result("ColumnExistsError", "", q.engine, tabs, q.calls, FALSE, 0)
  \* df[columns] with a label that is no column raises KeyError
  ELSE IF ~(Range(columns) \subseteq Range(df.columns))
    THEN Result("KeyError", "", q.engine, tabs, q.calls, FALSE, 0)
  ELSE LET rows == DfValues(df, columns)
           m == Comprehension([i \in 1..Len(rows) |-> Call(func, rows[i])])
       IN map_store(q.engine, tabs, df, table, output, m, q.calls)

(***************************************************************************)
(* Database.map_into                                                       *)
(***************************************************************************)
no_unbound_args(arg_names, col_names) == <<>>

\* the arguments that are not in col_names, in declared order
unbound_args(arg_names, col_names) ==
  SelectSeq(arg_names, LAMBDA arg : arg \notin Range(col_names))

\* output in col_names and not overwrite
map_into_column_exists(output, col_names, overwrite) ==
  output \in Range(col_names) /\ ~overwrite

map_into_keep_fetched(eng, table, df) == [err |-> "", engine |-> eng, calls |-> 0, df |-> df]

\* df = self.query('select * from table').to_dataframe(): the whole table again
map_into_refetch(eng, table, df) ==
  LET q == query(eng, <<SelectAll(table)>>) IN
  [err |-> q.err, engine |-> q.engine, calls |-> q.calls, df |-> to_dataframe(q.table)]

\* result = [func(**row) ...]; re-fetch; df[output] = result; self.add_table(df, ...)
map_into_store(eng, tabs, df, table, output, m, calls) ==
  IF m.raised THEN Result("FuncRaised", "", eng, tabs, calls, FALSE, m.calls)
  ELSE LET f == map_into_refetch(eng, table, df) IN
       IF f.err # "" THEN Result(f.err, "", f.engine, tabs, calls + f.calls, FALSE, m.calls)
       ELSE LET a == add_table(f.engine, tabs,
                               [kind |-> "DataFrame", found |-> TRUE, ext |-> "",
                                df |-> DfSetItem(f.df, output, m.result)],
                               table, "replace")
            IN [a EXCEPT !.calls = @ + calls + f.calls, !.fcalls = m.calls]

map_into(eng, tabs, func, table, output, overwrite) ==
  IF ~callable(func) THEN Result("TypeError", "", eng, tabs, 0, FALSE, 0)
  ELSE
  LET arg_names == func.params
      cn == column_names(eng, table)
  IN
  IF cn.err # "" THEN Result(cn.err, "", eng, tabs, 1, FALSE, 0)
  ELSE LET missing == unbound_args(arg_names, cn.names) IN
  IF missing # <<>>
    THEN Result("UnboundParameterError", missing[1], eng, tabs, 1, FALSE, 0)
  ELSE LET q == query(eng, <<SelectCols(table, arg_names)>>) IN
  IF q.err # "" THEN Result(q.err, "", q.engine, tabs, 1 + q.calls, FALSE, 0)
  ELSE LET df == to_dataframe(q.table) IN
  IF map_into_column_exists(output, cn.names, overwrite)
    THEN Result("ColumnExistsError", "", q.engine, tabs, 1 + q.calls, FALSE, 0)
  ELSE LET rows == DfRows(df)
           m == Comprehension([i \in 1..Len(rows) |-> CallByName(func, df.columns, rows[i])])
       IN map_into_store(q.engine, tabs, df, table, output, m, 1 + q.calls)

(***************************************************************************)
(* The inputs of the public calls.                                         *)
(***************************************************************************)
ColumnLists ==
  { <<>>, <<"b">>, <<"a", "b">>, <<"b", "a">>, <<"b", "c">> }

SqlInputs ==
  { <<>>, <<Ws>>, <<Sep, Sep>> }
  \cup UNION { { <<SelectAll(n)>>, <<SelectAll(n), Sep>>, <<Sep, SelectAll(n)>>,
                 <<SelectAll(n), Sep, Ws>>, <<SelectAll(n), SelectAll(n)>>,
                 <<CreateTable(n)>>, <<DropTable(n)>>, <<DropTable(n), Sep>> } : n \in Names }
  \cup UNION { { <<SelectAll(n), Sep, SelectAll(m)>>, <<SelectAll(n), Sep, DropTable(m)>>,
                 <<CreateTable(n), Sep, DropTable(m)>> } : n \in Names, m \in Names }

(***************************************************************************)
(* The state machine: one action per public call.                          *)
(***************************************************************************)
NoCall ==
  [op |-> "", name |-> "", policy |-> "", func |-> Func(<<>>, ""), columns |-> <<>>,
   output |-> "", overwrite |-> FALSE, sql |-> <<>>,
   err |-> "", errArg |-> "", calls |-> 0, adapted |-> FALSE, fcalls |-> 0,
   ret |-> NoTable]

\* Database.__init__
Init ==
  /\ engine = connect
  /\ _tables = <<>>
  /\ last = NoCall
  /\ pre = [engine |-> connect, tables |-> <<>>]
  /\ nops = 0

\* The call `call` ends with outcome r and return value ret.
Commit(call, r, ret) ==
  /\ engine' = r.engine
  /\ _tables' = r.tables
  /\ last' = [call EXCEPT !.err = r.err, !.errArg = r.errArg, !.calls = r.calls,
                          !.adapted = r.adapted, !.fcalls = r.fcalls, !.ret = ret]
  /\ pre' = [engine |-> engine, tables |-> _tables]
  /\ nops' = nops + 1

AddTable ==
  \E table \in Sources, name \in Names, if_exists \in Policies :
    /\ nops < MaxOps
    /\ Commit([NoCall EXCEPT !.op = "add_table", !.name = name, !.policy = if_exists],
              add_table(engine, _tables, table, name, if_exists), NoTable)

Query ==
  \E sql \in SqlInputs :
    /\ nops < MaxOps
    /\ LET q == query(engine, sql) IN
       Commit([NoCall EXCEPT !.op = "query", !.sql = sql],
              Result(q.err, "", q.engine, _tables, q.calls, FALSE, 0), q.table)

Map ==
  \E func \in Funcs, table \in Names, columns \in ColumnLists,
     output \in ColNames, overwrite \in BOOLEAN :
    /\ nops < MaxOps
    /\ Commit([NoCall EXCEPT !.op = "map", !.name = table, !.func = func,
                             !.columns = columns, !.output = output,
                             !.overwrite = overwrite],
              map(engine, _tables, func, table, columns, output, overwrite), NoTable)

MapInto ==
  \E func \in Funcs, table \in Names, output \in ColNames, overwrite \in BOOLEAN :
    /\ nops < MaxOps
    /\ Commit([NoCall EXCEPT !.op = "map_into", !.name = table, !.func = func,
                             !.output = output, !.overwrite = overwrite],
              map_into(engine, _tables, func, table, output, overwrite), NoTable)

ColumnNames ==
  \E table \in Names :
    /\ nops < MaxOps
    /\ LET cn == column_names(engine, table) IN
       Commit([NoCall EXCEPT !.op = "column_names", !.name = table],
              Result(cn.err, "", engine, _tables, 1, FALSE, 0), Table(<<>>, cn.names))

\* The `tables` property.
Tables ==
  /\ nops < MaxOps
  /\ Commit([NoCall EXCEPT !.op = "tables"],
            Result("", "", engine, _tables, 0, FALSE, 0), Table(<<>>, _tables))

\* Database.to_sqlite: the catalog is copied to a file, and left as it is.
ToSqlite ==
  /\ nops < MaxOps
  /\ Commit([NoCall EXCEPT !.op = "to_sqlite"],
            Result("", "", engine, _tables, 1, FALSE, 0), NoTable)

Next == AddTable \/ Query \/ Map \/ MapInto \/ ColumnNames \/ Tables \/ ToSqlite

Spec == Init /\ [][Next]_vars

(***************************************************************************)
(* Properties.  `old` is the relation the last call started from, `new`    *)
(* the relation it left.                                                   *)
(***************************************************************************)
OldRel == pre.engine[last.name]
NewRel == engine[last.name]

\* The data of column c of relation r, top to bottom.
ColumnOf(r, c) == [i \in 1..Len(r.rows) |-> r.rows[i][IndexOf(r.columns, c)]]

NoDuplicates(s) == \A i, j \in 1..Len(s) : s[i] = s[j] => i = j

Unchanged == engine = pre.engine /\ _tables = pre.tables

\* C1: add_table(source, name, 'fail') with name already in the registry
\* fails with the already-exists error before the source is adapted and
\* before any engine call; the relation under name and the registry are
\* what they were before the call.
C1_FailOnKnownName ==
  (last.op = "add_table" /\ last.policy = "fail" /\ last.name \in Range(pre.tables))
    => /\ last.err = "AlreadyExistsError"
       /\ ~last.adapted
       /\ last.calls = 0
       /\ NewRel = OldRel
       /\ _tables = pre.tables

C1_Witness ==
  /\ last.op = "add_table" /\ last.policy = "fail"
  /\ last.name \in Range(pre.tables)
  /\ OldRel.exists /\ Len(OldRel.rows) > 0
  /\ last.err = "AlreadyExistsError"

\* C2: after any sequence of completed public calls the registry and the
\* engine's catalog hold the same names: every registered name has a
\* relation, and every relation is registered.
C2_RegistryMatchesCatalog ==
  \A n \in Names : (n \in Range(_tables)) <=> engine[n].exists

\* C3: query(sql) splits sql on ';'; with more than one non-empty piece it
\* fails with the multi-statement error before anything is executed, so the
\* catalog and the registry are unchanged; with exactly one non-empty piece
\* the text is passed to the engine.
C3_SingleStatementOnly ==
  last.op = "query" =>
    LET n == Len(SelectSeq(split(last.sql), LAMBDA e : Len(e) > 0)) IN
    /\ n > 1 => (last.err = "MultiStatementError" /\ last.calls = 0 /\ Unchanged)
    /\ n = 1 => (last.err # "MultiStatementError" /\ last.calls = 1)

C3_Witness ==
  /\ last.op = "query"
  /\ last.sql = <<SelectAll("t"), Sep, DropTable("t")>>
  /\ pre.engine["t"].exists
  /\ last.err = "MultiStatementError"

\* C4: map and map_into with an output that is already a column of the
\* table and overwrite false always fail, invoke func for no row, and leave
\* the table as it was (same rows, same columns).
C4_NoOverwrite ==
  (/\ last.op \in {"map", "map_into"}
   /\ OldRel.exists
   /\ last.output \in Range(OldRel.columns)
   /\ ~last.overwrite)
    => /\ last.err # ""
       /\ last.fcalls = 0
       /\ NewRel = OldRel

C4_Witness ==
  /\ last.op = "map" /\ ~last.overwrite
  /\ OldRel.exists /\ Len(OldRel.rows) > 1
  /\ last.output \in Range(OldRel.columns)
  /\ Range(last.columns) \subseteq Range(OldRel.columns)
  /\ last.err = "ColumnExistsError"

\* C5: map_into binds by func's declared parameter names, whatever the
\* physical column order: binding succeeds iff every declared name is a
\* column of the table; otherwise the call fails with the unbound-parameter
\* error naming a missing column, func is invoked for no row, and the
\* catalog and the registry are unchanged.
C5_BindByName ==
  last.op = "map_into" =>
    LET missing == {p \in Range(last.func.params) : p \notin Range(OldRel.columns)} IN
    /\ (last.err = "UnboundParameterError") <=> (missing # {})
    /\ missing # {} => (last.errArg \in missing /\ last.fcalls = 0 /\ Unchanged)

C5_Witness ==
  /\ last.op = "map_into"
  /\ last.func.params = <<"b", "a">>
  /\ OldRel.columns = <<"a", "b">>
  /\ last.err = ""

\* The value func returns for row i of r with its arguments taken from the
\* columns `args` of that row, in that order.
Applied(func, r, args, i) ==
  Call(func, [k \in 1..Len(args) |-> ColumnOf(r, args[k])[i]])

\* A call that wrote column `output`: the row count is kept, every other
\* column keeps its place and its data, and a new output column is last.
OutputAttached ==
  /\ NewRel.exists
  /\ Len(NewRel.rows) = Len(OldRel.rows)
  /\ NewRel.columns = IF last.output \in Range(OldRel.columns)
                        THEN OldRel.columns
                        ELSE Append(OldRel.columns, last.output)
  /\ \A c \in Range(OldRel.columns) \ {last.output} :
       ColumnOf(NewRel, c) = ColumnOf(OldRel, c)

\* C6: after a successful map_into the table has as many rows as before,
\* every column other than output is unchanged, output holds in each row
\* func applied to that row with each parameter bound to the same-named
\* column, and a new output column is the last column.
C6_MapIntoResult ==
  (last.op = "map_into" /\ last.err = "") =>
    /\ OutputAttached
    /\ \A i \in 1..Len(OldRel.rows) :
         LET v == Applied(last.func, OldRel, last.func.params, i) IN
         ~v.raised /\ ColumnOf(NewRel, last.output)[i] = v.value

C6_Witness ==
  /\ last.op = "map_into" /\ last.err = ""
  /\ Len(OldRel.rows) > 1
  /\ last.output \notin Range(OldRel.columns)
  /\ Range(OldRel.columns) \ Range(last.func.params) # {}
  /\ NewRel.columns[Len(NewRel.columns)] = last.output

\* C7 as stated: column_names(table) returns the ordered column names of an
\* existing table, and fails with an engine error when the table does not
\* exist.
C7_FailsOnMissingTable ==
  last.op = "column_names" =>
    IF OldRel.exists
      THEN last.err = "" /\ last.ret.columns = OldRel.columns
      ELSE last.err # ""

\* C7 as amended: column_names(table) returns the ordered column names of
\* an existing table, and returns the empty list, without an error, when
\* the table does not exist.
C7_EmptyOnMissingTable ==
  last.op = "column_names" =>
    /\ last.err = ""
    /\ last.ret.columns = IF OldRel.exists THEN OldRel.columns ELSE <<>>
    /\ Unchanged

C7_Witness ==
  /\ last.op = "column_names"
  /\ ~OldRel.exists
  /\ \E n \in Names : pre.engine[n].exists
  /\ last.err = "" /\ last.ret.columns = <<>>

\* C8 as stated: after a successful map the table is replaced by its rows
\* restricted to `columns` (no other column is left), with output attached
\* and holding func applied to each row's values in `columns` order; the
\* row count is unchanged.  Stated for a non-empty `columns`.
C8_RestrictedSnapshot ==
  (last.op = "map" /\ last.err = "" /\ last.columns # <<>>) =>
    /\ NewRel.exists
    /\ Len(NewRel.rows) = Len(OldRel.rows)
    /\ Range(NewRel.columns) = Range(last.columns) \cup {last.output}
    /\ \A i \in 1..Len(OldRel.rows) :
         ColumnOf(NewRel, last.output)[i] = Applied(last.func, OldRel, last.columns, i).value

\* C8 as amended: after a successful map the table is replaced by the
\* snapshot of all its columns and rows, with output attached (in place
\* when it already was a column, last otherwise) and holding func applied
\* to each row's values in `columns` order; the row count and every other
\* column are unchanged.
C8_WholeSnapshot ==
  (last.op = "map" /\ last.err = "") =>
    /\ OutputAttached
    /\ \A i \in 1..Len(OldRel.rows) :
         LET v == Applied(last.func, OldRel, last.columns, i) IN
         ~v.raised /\ ColumnOf(NewRel, last.output)[i] = v.value

C8_Witness ==
  /\ last.op = "map" /\ last.err = ""
  /\ Len(OldRel.rows) > 1
  /\ Range(OldRel.columns) \ (Range(last.columns) \cup {last.output}) # {}
  /\ last.columns # <<>>

\* C9: the registry never holds a name twice and is extended only at its
\* end: a successful add_table (direct, or through map / map_into) appends
\* name when it is not yet present, every other call and every failed call
\* leaves the registry as it was.
C9_RegistryAppendOnly ==
  /\ NoDuplicates(_tables)
  /\ \/ _tables = pre.tables
     \/ /\ last.op \in {"add_table", "map", "map_into"}
        /\ last.err = ""
        /\ last.name \notin Range(pre.tables)
        /\ _tables = Append(pre.tables, last.name)
  /\ (last.op \in {"add_table", "map", "map_into"} /\ last.err = "")
       => last.name \in Range(_tables)
  /\ last.err # "" => _tables = pre.tables

C9_Witness ==
  /\ last.op = "add_table" /\ last.err = ""
  /\ last.policy = "replace"
  /\ last.name \in Range(pre.tables)
  /\ _tables = pre.tables

\* C10: in map and map_into func is invoked for every row before anything
\* is written: when func raises on a row the call fails and the catalog and
\* the registry are as before the call; a call that succeeds invoked func
\* once per row.
C10_RaiseLeavesTable ==
  last.op \in {"map", "map_into"} =>
    /\ last.err = "FuncRaised" => Unchanged
    /\ last.err = "" =>
         /\ last.fcalls = Len(OldRel.rows)
         /\ \A i \in 1..Len(OldRel.rows) :
              ~Applied(last.func, OldRel,
                       IF last.op = "map" THEN last.columns ELSE last.func.params, i).raised

C10_Witness ==
  /\ last.op = "map" /\ last.err = "FuncRaised"
  /\ last.fcalls > 1
  /\ Len(OldRel.rows) > 1

====
